---- MODULE Spec2Model ----
(***************************************************************************)
(* Model of astrbot_plugin_WZL_StatusPlus (src/main.py).                   *)
(*                                                                         *)
(* ServerStatusMonitor keeps one previous network snapshot (_prev_net,     *)
(* _prev_ts).  query_status is an async generator run by an asyncio event  *)
(* loop; several invocations on the one monitor may be in flight.  A       *)
(* coroutine runs without interruption from one suspension point (the      *)
(* await of asyncio.gather, the yield of the reply) to the next.           *)
(*                                                                         *)
(* format_units is a pure function; it is modelled over exact base-1024    *)
(* digit strings so that values of 1024^5 and more are representable.      *)
(*                                                                         *)
(* Timestamps are whole seconds.  Rates are exact rationals rounded to two *)
(* decimals the way Python's format() rounds (half to even).               *)
(***************************************************************************)
EXTENDS Integers, Sequences, FiniteSets, TLC

\* ------------------------------------------------------------------ bounds
NumInv == 2
MaxTs == 3
MaxK == 2
MaxDigits == 6

\* --------------------------------------------------------- program constants
KB == 1024
MB == 1048576
LastUnit == 4
DefaultPrecision == 2

\* Optional values: None is the empty tuple, a value v is <<v>>
None == <<>>
Some(v) == <<v>>
Val(o) == o[1]

Inv == 1..NumInv
Times == 0..MaxTs
\* cumulative byte counters, in steps of half a megabyte
CounterVals == {k * (MB \div 2) : k \in 0..MaxK}
Snapshots == [bytes_sent : CounterVals, bytes_recv : CounterVals]

units == <<"B", "KB", "MB", "GB", "TB">>

VARIABLES
    prev_net,   \* self._prev_net : None or a snapshot
    prev_ts,    \* self._prev_ts  : None or a timestamp
    pc,         \* position of each query_status invocation
    running,    \* the invocation the event loop is executing, or None
    current,    \* local of _calc_network_speed
    now,        \* local of _calc_network_speed
    used_net,   \* the value of self._prev_net the call read
    used_ts,    \* the value of self._prev_ts the call read
    branch,     \* which path the call took: "first" or "primed"
    upload,     \* local: delta, then the formatted upload rate
    download,   \* local: delta, then the formatted download rate
    exc,        \* the exception in flight in each invocation
    failed_at,  \* the step of the invocation that raised
    stored,     \* whether this invocation's sampler call wrote the snapshot
    replies,    \* the messages each invocation has yielded
    reached_ts, \* timestamp read by the last invocation that entered the sampler
    fmt_pc,     \* position inside format_units
    fmt_ip,     \* format_units: integer part of num, base-1024 digits
    fmt_fp,     \* format_units: fraction part of num, base-1024 digits
    fmt_prec,   \* format_units: precision
    unit_index, \* format_units: unit_index
    fmt_out     \* format_units: the returned text

samplerVars == <<prev_net, prev_ts, pc, running, current, now, used_net, used_ts, branch,
                 upload,
                 download, exc, failed_at, stored, replies, reached_ts>>
fmtVars == <<fmt_pc, fmt_ip, fmt_fp, fmt_prec, unit_index, fmt_out>>
vars == <<prev_net, prev_ts, pc, running, current, now, used_net, used_ts,
          branch, upload,
          download, exc, failed_at, stored, replies, reached_ts,
          fmt_pc, fmt_ip, fmt_fp, fmt_prec, unit_index, fmt_out>>

\* ------------------------------------------------------------ arithmetic
Abs(x) == IF x < 0 THEN -x ELSE x

\* n / d rounded to the nearest integer, ties to even (n >= 0, d > 0)
RoundHalfEven(n, d) ==
    LET q == n \div d
        r == n % d
    IN  IF 2 * r > d THEN q + 1
        ELSE IF 2 * r < d THEN q
        ELSE IF q % 2 = 0 THEN q ELSE q + 1

\* f"{num / den:.2f} <unit>" : sign, hundredths and unit of the text.
\* A zero numerator over a negative denominator is the float -0.0, which
\* prints as "-0.00"; so does a small negative value.
FmtRate(num, den, unit) ==
    [sign |-> IF (num < 0 /\ den > 0) \/ (num >= 0 /\ den < 0) THEN "-" ELSE "",
     hundredths |-> RoundHalfEven(Abs(num) * 100, Abs(den)),
     unit |-> unit]

\* the literal "0.00 KB/s"
ZeroRate == [sign |-> "", hundredths |-> 0, unit |-> "KB/s"]

\* ------------------------------------------------- _calc_network_speed
\* Python truth value of self._prev_net (a namedtuple, never empty)
TruthyNet(n) == n # None
\* Python truth value of self._prev_ts (a float: 0.0 is false)
TruthyTs(t) == t # None /\ Val(t) # 0

HasPrev(n, t) == TruthyNet(n) /\ TruthyTs(t)

\* line 64 / 65: the unit is chosen from the delta, the value is the rate
SpeedText(delta, time_diff) ==
    IF delta < MB THEN FmtRate(delta, time_diff * KB, "KB/s")
    ELSE FmtRate(delta, time_diff * MB, "MB/s")

\* ------------------------------------------------------- event loop
\* variant: an await between the read and the write of the stored snapshot
SuspendPointsInSampler == {"gather", "yield", "store"}

\* positions at which a coroutine gives the event loop back
SuspendPoints == {"gather", "yield"}

Released(p) == p \in SuspendPoints \cup {"idle"}

CanRun(i) == running = None \/ running = Some(i)

Holder(i, p) == IF Released(p) THEN None ELSE Some(i)

\* variant: the broad except clause placed first
HandleGeneric(e) == "error"

\* except psutil.AccessDenied / except Exception
Handle(e) == IF e = "AccessDenied" THEN "denied" ELSE "error"

Reads == {"cpu_percent", "virtual_memory", "disk_usage", "process_iter"}
Outcomes == {"ok", "AccessDenied", "Exception"}

\* variant: the sampler called before the gathered reads are awaited
StepsSamplerFirst == <<"load", "calc", "store", "gather", "post">>

\* the statements of query_status in program order (lines 76, 84, 85, 86);
\* "calc" and "store" are the two halves of the call of line 85
Steps == <<"gather", "load", "calc", "store", "post">>

\* the position that follows p
After(p) ==
    LET k == CHOOSE n \in 1..Len(Steps) : Steps[n] = p
    IN  IF k < Len(Steps) THEN Steps[k + 1] ELSE "yield"

\* the locals of _calc_network_speed go away when the call is left
DropCall(i) ==
    /\ current' = [current EXCEPT ![i] = None]
    /\ now' = [now EXCEPT ![i] = None]
    /\ used_net' = [used_net EXCEPT ![i] = None]
    /\ used_ts' = [used_ts EXCEPT ![i] = None]
    /\ branch' = [branch EXCEPT ![i] = "none"]

\* control moves to position p of invocation i
Goto(i, p) ==
    /\ pc' = [pc EXCEPT ![i] = p]
    /\ running' = Holder(i, p)

\* an exception e raised at step s enters the except clauses
Raise(i, e, s) ==
    /\ exc' = [exc EXCEPT ![i] = e]
    /\ failed_at' = [failed_at EXCEPT ![i] = s]
    /\ Goto(i, "except")

\* ------------------------------------------------------- query_status
\* the command arrives; the coroutine runs to the await of line 76
Invoke(i) ==
    /\ pc[i] = "idle"
    /\ CanRun(i)
    /\ Goto(i, Steps[1])
    /\ UNCHANGED <<prev_net, prev_ts, current, now, used_net, used_ts, branch,
                   upload, download,
                   exc, failed_at, stored, replies, reached_ts>>
    /\ UNCHANGED fmtVars

\* lines 76-81: the four reads ran in worker threads; gather returns their
\* results or raises the exception of a read that failed
Gather(i) ==
    /\ pc[i] = "gather"
    /\ CanRun(i)
    /\ \E r \in [Reads -> Outcomes] :
          IF \A k \in Reads : r[k] = "ok"
          THEN /\ Goto(i, After("gather"))
               /\ UNCHANGED <<exc, failed_at>>
          ELSE \E k \in {x \in Reads : r[x] # "ok"} : Raise(i, r[k], "gather")
    /\ UNCHANGED <<prev_net, prev_ts, current, now, used_net, used_ts, branch,
                   upload, download,
                   stored, replies, reached_ts>>
    /\ UNCHANGED fmtVars

\* line 84: _get_load_avg (AttributeError is caught inside, others are not)
LoadAvg(i) ==
    /\ pc[i] = "load"
    /\ CanRun(i)
    /\ \E o \in {"ok", "Exception"} :
          IF o = "ok"
          THEN /\ Goto(i, After("load"))
               /\ UNCHANGED <<exc, failed_at>>
          ELSE Raise(i, o, "load")
    /\ UNCHANGED <<prev_net, prev_ts, current, now, used_net, used_ts, branch,
                   upload, download,
                   stored, replies, reached_ts>>
    /\ UNCHANGED fmtVars

\* line 53: psutil.net_io_counters() itself fails
CalcProviderFails(i) ==
    /\ pc[i] = "calc"
    /\ CanRun(i)
    /\ \E e \in {"AccessDenied", "Exception"} : Raise(i, e, "calc")
    /\ UNCHANGED <<prev_net, prev_ts, current, now, used_net, used_ts, branch,
                   upload, download,
                   stored, replies, reached_ts>>
    /\ UNCHANGED fmtVars

\* lines 53-65: read the counters and the clock, compute both rates
CalcRead(i) ==
    /\ pc[i] = "calc"
    /\ CanRun(i)
    /\ \E cur \in Snapshots, t \in Times :
          /\ current' = [current EXCEPT ![i] = Some(cur)]
          /\ now' = [now EXCEPT ![i] = Some(t)]
          /\ used_net' = [used_net EXCEPT ![i] = prev_net]
          /\ used_ts' = [used_ts EXCEPT ![i] = prev_ts]
          /\ reached_ts' = Some(t)
          /\ IF HasPrev(prev_net, prev_ts)
             THEN LET time_diff == t - Val(prev_ts)
                      up == cur.bytes_sent - Val(prev_net).bytes_sent
                      down == cur.bytes_recv - Val(prev_net).bytes_recv
                  IN  /\ branch' = [branch EXCEPT ![i] = "primed"]
                      /\ IF time_diff = 0
                         THEN /\ Raise(i, "ZeroDivisionError", "calc")
                              /\ UNCHANGED <<upload, download>>
                         ELSE /\ upload' = [upload EXCEPT
                                              ![i] = Some(SpeedText(up, time_diff))]
                              /\ download' = [download EXCEPT
                                              ![i] = Some(SpeedText(down, time_diff))]
                              /\ Goto(i, After("calc"))
                              /\ UNCHANGED <<exc, failed_at>>
             ELSE /\ branch' = [branch EXCEPT ![i] = "first"]
                  /\ upload' = [upload EXCEPT ![i] = Some(ZeroRate)]
                  /\ download' = [download EXCEPT ![i] = Some(ZeroRate)]
                  /\ Goto(i, After("calc"))
                  /\ UNCHANGED <<exc, failed_at>>
    /\ UNCHANGED <<prev_net, prev_ts, stored, replies>>
    /\ UNCHANGED fmtVars

\* lines 67-69: overwrite the stored snapshot and return
CalcStore(i) ==
    /\ pc[i] = "store"
    /\ CanRun(i)
    /\ prev_net' = current[i]
    /\ prev_ts' = now[i]
    /\ stored' = [stored EXCEPT ![i] = TRUE]
    /\ DropCall(i)
    /\ Goto(i, After("store"))
    /\ UNCHANGED <<upload, download, exc, failed_at, replies, reached_ts>>
    /\ UNCHANGED fmtVars

\* lines 86-106: the remaining reads and the report, up to the yield
Post(i) ==
    /\ pc[i] = "post"
    /\ CanRun(i)
    /\ \E o \in Outcomes :
          IF o = "ok"
          THEN /\ replies' = [replies EXCEPT ![i] = Append(@, "report")]
               /\ Goto(i, After("post"))
               /\ UNCHANGED <<exc, failed_at>>
          ELSE /\ Raise(i, o, "post")
               /\ UNCHANGED replies
    /\ upload' = [upload EXCEPT ![i] = None]
    /\ download' = [download EXCEPT ![i] = None]
    /\ UNCHANGED <<prev_net, prev_ts, current, now, used_net, used_ts, branch,
                   stored, reached_ts>>
    /\ UNCHANGED fmtVars

\* lines 108-111: the except clauses yield one message
Except(i) ==
    /\ pc[i] = "except"
    /\ CanRun(i)
    /\ replies' = [replies EXCEPT ![i] = Append(@, Handle(exc[i]))]
    /\ DropCall(i)
    /\ upload' = [upload EXCEPT ![i] = None]
    /\ download' = [download EXCEPT ![i] = None]
    /\ Goto(i, "yield")
    /\ UNCHANGED <<prev_net, prev_ts, exc, failed_at, stored, reached_ts>>
    /\ UNCHANGED fmtVars

\* the consumer asks for the next message: the generator runs off its end
\* and the invocation is over; the command may be issued again
Resume(i) ==
    /\ pc[i] = "yield"
    /\ CanRun(i)
    /\ Goto(i, "idle")
    /\ exc' = [exc EXCEPT ![i] = "none"]
    /\ failed_at' = [failed_at EXCEPT ![i] = "none"]
    /\ stored' = [stored EXCEPT ![i] = FALSE]
    /\ replies' = [replies EXCEPT ![i] = <<>>]
    /\ UNCHANGED <<prev_net, prev_ts, current, now, used_net, used_ts, branch,
                   upload, download, reached_ts>>
    /\ UNCHANGED fmtVars

\* variant: __init__ that starts from an all-zero baseline
MonitorInitBaseline ==
    /\ prev_net = Some([bytes_sent |-> 0, bytes_recv |-> 0])
    /\ prev_ts = Some(1)
    /\ pc = [i \in Inv |-> "idle"]
    /\ running = None
    /\ current = [i \in Inv |-> None]
    /\ now = [i \in Inv |-> None]
    /\ used_net = [i \in Inv |-> None]
    /\ used_ts = [i \in Inv |-> None]
    /\ branch = [i \in Inv |-> "none"]
    /\ upload = [i \in Inv |-> None]
    /\ download = [i \in Inv |-> None]
    /\ exc = [i \in Inv |-> "none"]
    /\ failed_at = [i \in Inv |-> "none"]
    /\ stored = [i \in Inv |-> FALSE]
    /\ replies = [i \in Inv |-> <<>>]
    /\ reached_ts = None

\* lines 30-33: __init__
MonitorInit ==
    /\ prev_net = None
    /\ prev_ts = None
    /\ pc = [i \in Inv |-> "idle"]
    /\ running = None
    /\ current = [i \in Inv |-> None]
    /\ now = [i \in Inv |-> None]
    /\ used_net = [i \in Inv |-> None]
    /\ used_ts = [i \in Inv |-> None]
    /\ branch = [i \in Inv |-> "none"]
    /\ upload = [i \in Inv |-> None]
    /\ download = [i \in Inv |-> None]
    /\ exc = [i \in Inv |-> "none"]
    /\ failed_at = [i \in Inv |-> "none"]
    /\ stored = [i \in Inv |-> FALSE]
    /\ replies = [i \in Inv |-> <<>>]
    /\ reached_ts = None

FmtIdle ==
    /\ fmt_pc = "off"
    /\ fmt_ip = <<0>>
    /\ fmt_fp = <<>>
    /\ fmt_prec = DefaultPrecision
    /\ unit_index = 0
    /\ fmt_out = None

Init == MonitorInit /\ FmtIdle

Next ==
    \E i \in Inv :
        \/ Invoke(i)
        \/ Gather(i)
        \/ LoadAvg(i)
        \/ CalcProviderFails(i)
        \/ CalcRead(i)
        \/ CalcStore(i)
        \/ Post(i)
        \/ Except(i)
        \/ Resume(i)

Spec == Init /\ [][Next]_vars

\* ------------------------------------------------------- format_units
\* A non-negative number is a string of base-1024 digits, most significant
\* first, without leading zeros; dividing by 1024 moves the last integer
\* digit to the front of the fraction, exactly as the float division does
\* for values of at most 53 significant bits.
Digits == {0, 1, 512, 1023}

RECURSIVE DigitStrings(_)
DigitStrings(n) ==
    IF n = 0 THEN {<<>>}
    ELSE {<<d>> \o s : d \in Digits, s \in DigitStrings(n - 1)}

\* inputs: values below 1024^MaxDigits that a float holds exactly
FmtInputs ==
    {s \in UNION {DigitStrings(n) : n \in 1..MaxDigits} :
        /\ Len(s) > 1 => s[1] # 0
        /\ \A k \in 1..Len(s) : k > 5 => s[k] = 0}

\* num >= 1024
Ge1024(ip) == Len(ip) >= 2

\* variant: the loop without the bound on the unit index
LoopGuardUnbounded(ip, idx) == Ge1024(ip)

\* line 19: the loop condition
LoopGuard(ip, idx) == Ge1024(ip) /\ idx < LastUnit

Pow10(p) == IF p = 0 THEN 1 ELSE IF p = 1 THEN 10 ELSE 100

\* fraction fp times m: the integer carried out and the fraction left
RECURSIVE MulFrac(_, _)
MulFrac(fp, m) ==
    IF fp = <<>> THEN [carry |-> 0, digits |-> <<>>]
    ELSE LET rest == MulFrac(Tail(fp), m)
             t == Head(fp) * m + rest.carry
         IN  [carry |-> t \div KB, digits |-> <<t % KB>> \o rest.digits]

AllZero(ds) == \A k \in 1..Len(ds) : ds[k] = 0

\* a fraction compared with one half: "below", "half" or "above"
CmpHalf(ds) ==
    IF ds = <<>> \/ Head(ds) < 512 THEN "below"
    ELSE IF Head(ds) > 512 THEN "above"
    ELSE IF AllZero(Tail(ds)) THEN "half" ELSE "above"

\* the integer ip plus one
RECURSIVE IncDigits(_)
IncDigits(ip) ==
    IF ip = <<>> THEN <<1>>
    ELSE LET n == Len(ip)
         IN  IF ip[n] < KB - 1 THEN SubSeq(ip, 1, n - 1) \o <<ip[n] + 1>>
             ELSE IncDigits(SubSeq(ip, 1, n - 1)) \o <<0>>

\* units[unit_index]; an index past the table raises IndexError
UnitName(idx) == IF idx + 1 \in DOMAIN units THEN units[idx + 1] ELSE "IndexError"

\* line 22: f"{num:.{precision}f} {units[unit_index]}", rounding half to even
FormatText(ip, fp, precision, idx) ==
    LET m == Pow10(precision)
        sc == MulFrac(fp, m)
        odd == IF precision = 0 THEN ip[Len(ip)] % 2 = 1 ELSE sc.carry % 2 = 1
        c == CmpHalf(sc.digits)
        up == c = "above" \/ (c = "half" /\ odd)
        f == IF up THEN sc.carry + 1 ELSE sc.carry
    IN  [whole |-> IF f = m THEN IncDigits(ip) ELSE ip,
         frac |-> IF f = m THEN 0 ELSE f,
         precision |-> precision,
         unit |-> UnitName(idx)]

\* lines 19-21: one turn of the loop
FmtDivide ==
    /\ fmt_pc = "loop"
    /\ LoopGuard(fmt_ip, unit_index)
    /\ fmt_ip' = SubSeq(fmt_ip, 1, Len(fmt_ip) - 1)
    /\ fmt_fp' = <<fmt_ip[Len(fmt_ip)]>> \o fmt_fp
    /\ unit_index' = unit_index + 1
    /\ UNCHANGED <<fmt_pc, fmt_prec, fmt_out>>
    /\ UNCHANGED samplerVars

\* line 22: the loop is left and the text returned
FmtReturn ==
    /\ fmt_pc = "loop"
    /\ ~LoopGuard(fmt_ip, unit_index)
    /\ fmt_out' = Some(FormatText(fmt_ip, fmt_fp, fmt_prec, unit_index))
    /\ fmt_pc' = "done"
    /\ UNCHANGED <<fmt_ip, fmt_fp, fmt_prec, unit_index>>
    /\ UNCHANGED samplerVars

\* lines 15-18: a call of format_units
FmtInit ==
    /\ MonitorInit
    /\ fmt_pc = "loop"
    /\ fmt_ip \in FmtInputs
    /\ fmt_fp = <<>>
    /\ fmt_prec \in 0..DefaultPrecision
    /\ unit_index = 0
    /\ fmt_out = None

FmtNext == FmtDivide \/ FmtReturn

SpecFmt == FmtInit /\ [][FmtNext]_vars

\* =================================================================== claims
\* invocation i is inside _calc_network_speed and has read counters and clock
InCall(i) == current[i] # None

\* the call of invocation i found a previous snapshot stored
PrevStored(i) == used_net[i] # None /\ used_ts[i] # None

Elapsed(i) == Val(now[i]) - Val(used_ts[i])
DeltaSent(i) == Val(current[i]).bytes_sent - Val(used_net[i]).bytes_sent
DeltaRecv(i) == Val(current[i]).bytes_recv - Val(used_net[i]).bytes_recv

\* the text "0.00 KB/s"
IsZeroText(r) == r = Some([sign |-> "", hundredths |-> 0, unit |-> "KB/s"])

\* a text that denotes a value below zero
IsNegativeText(r) == Val(r).sign = "-" /\ Val(r).hundredths > 0

\* C1: a sampler call made with a previous snapshot stored and elapsed <= 0
\* returns "0.00 KB/s" for both directions and raises nothing.
C1_DegenerateIsZero ==
    \A i \in Inv :
        (InCall(i) /\ PrevStored(i) /\ Elapsed(i) <= 0)
            => /\ pc[i] = "store"
               /\ IsZeroText(upload[i])
               /\ IsZeroText(download[i])

\* C2: no call returns a negative rate; a direction whose counter went down
\* reports zero, whatever the other direction does.
C2_NoNegativeRate ==
    \A i \in Inv :
        pc[i] = "store"
            => /\ ~IsNegativeText(upload[i])
               /\ ~IsNegativeText(download[i])
               /\ (PrevStored(i) /\ DeltaSent(i) < 0) => IsZeroText(upload[i])
               /\ (PrevStored(i) /\ DeltaRecv(i) < 0) => IsZeroText(download[i])

\* C3: every sampler call that read a snapshot, however it ends (return or
\* exception), leaves that snapshot and its timestamp stored.
C3_AlwaysOverwrites ==
    [][\A i \in Inv :
          /\ (pc[i] = "store" /\ pc'[i] # "store")
                => (prev_net' = current[i] /\ prev_ts' = now[i])
          /\ (pc[i] = "calc" /\ pc'[i] = "except" /\ current'[i] # None)
                => (prev_net' = current'[i] /\ prev_ts' = now'[i])]_vars

\* C4: the first sampler call on a fresh monitor returns "0.00 KB/s" for both
\* directions whatever the counters are, and stores the snapshot.
C4_FirstCallZero ==
    [][\A i \in Inv :
          /\ (pc[i] = "calc" /\ reached_ts = None /\ current'[i] # None)
                => /\ pc'[i] = "store"
                   /\ IsZeroText(upload'[i])
                   /\ IsZeroText(download'[i])
          /\ (pc[i] = "store" /\ branch[i] = "first" /\ pc'[i] # "store")
                => (prev_net' = current[i] /\ prev_ts' = now[i])]_vars

C4_Witness ==
    \E i \in Inv :
        /\ pc[i] = "store"
        /\ used_net[i] = None
        /\ Val(current[i]).bytes_sent > 0
        /\ Val(current[i]).bytes_recv > Val(current[i]).bytes_sent
        /\ IsZeroText(upload[i])
        /\ IsZeroText(download[i])

\* C5: once a snapshot has been stored, no later call takes the first-call
\* branch.
C5_NeverFirstAgain ==
    \A i \in Inv : (InCall(i) /\ used_net[i] # None) => branch[i] = "primed"

\* C6: with elapsed > 0 and deltas >= 0 the unit of each direction follows
\* the rate delta / elapsed: KB/s below 1,048,576 bytes per second, else MB/s.
UnitOfRate(delta, elapsed) == IF delta < MB * elapsed THEN "KB/s" ELSE "MB/s"

C6_UnitFromRate ==
    \A i \in Inv :
        (pc[i] = "store" /\ branch[i] = "primed" /\ Elapsed(i) > 0
            /\ DeltaSent(i) >= 0 /\ DeltaRecv(i) >= 0)
            => /\ Val(upload[i]).unit = UnitOfRate(DeltaSent(i), Elapsed(i))
               /\ Val(download[i]).unit = UnitOfRate(DeltaRecv(i), Elapsed(i))

\* C7: sampler calls of invocations in flight are serialized: between a call's
\* read of the stored snapshot and its write nothing else runs, at most one
\* call is between read and write, and the snapshot it read is still the
\* stored one (the one written by the call completed just before).
C7_Serialized ==
    /\ [](\A i \in Inv :
            pc[i] = "store"
                => /\ used_net[i] = prev_net
                   /\ used_ts[i] = prev_ts
                   /\ \A j \in Inv \ {i} : pc[j] # "store")
    /\ [][\A i \in Inv : pc[i] = "store" => pc'[i] # "store"]_vars

C7_Witness ==
    \E i, j \in Inv :
        /\ i # j
        /\ pc[i] = "store"
        /\ branch[i] = "primed"
        /\ pc[j] = "gather"
        /\ stored[j] = FALSE

\* C8 as stated: the unit index never passes TB, and for a unit other than TB
\* the value printed is below 1024.
C8_PrintedBelow1024 ==
    /\ unit_index <= 4
    /\ (fmt_pc = "done" /\ unit_index < 4) => Len(Val(fmt_out).whole) = 1

\* C8 amended: the unit index never passes TB, one division goes with each
\* advance, the loop ends at TB or with a value below 1024, and for a unit
\* other than TB the value printed is at most 1024 (it is 1024 only by
\* rounding up).
C8_ScaledBelow1024 ==
    /\ unit_index <= 4
    /\ unit_index = Len(fmt_fp)
    /\ fmt_pc = "done"
          => /\ unit_index = 4 \/ Len(fmt_ip) = 1
             /\ Val(fmt_out).unit = units[unit_index + 1]
             /\ unit_index < 4
                   => \/ Len(Val(fmt_out).whole) = 1
                      \/ /\ Val(fmt_out).whole = <<1, 0>>
                         /\ Val(fmt_out).frac = 0
                         /\ fmt_fp # <<>>

C8_Witness ==
    /\ fmt_pc = "done"
    /\ unit_index = 4
    /\ Len(fmt_ip) = 2
    /\ Val(fmt_out).unit = "TB"

\* C9: an invocation yields exactly one message, at its single yield point:
\* the report if nothing raised, the access-denied message for
\* psutil.AccessDenied, the generic message for any other exception; the
\* step after the yield ends the invocation without another message.
C9_OneReply ==
    /\ [](\A i \in Inv :
            IF pc[i] = "yield"
            THEN replies[i] = << IF exc[i] = "none" THEN "report"
                                 ELSE IF exc[i] = "AccessDenied" THEN "denied"
                                 ELSE "error" >>
            ELSE replies[i] = <<>>)
    /\ [][\A i \in Inv :
            (pc[i] = "yield" /\ pc'[i] # "yield") => pc'[i] = "idle"]_vars

C9_Witness ==
    \E i, j \in Inv :
        /\ pc[i] = "yield" /\ exc[i] = "AccessDenied" /\ replies[i] = <<"denied">>
        /\ pc[j] = "yield" /\ exc[j] = "none" /\ replies[j] = <<"report">>

====
